---- MODULE Spec2Model ----
(***************************************************************************)
(* Sticky-message addon: the messageCreate handler, the webhook sweep      *)
(* (ensureWebhooks) and the platform they act on, as a state machine.      *)
(* Every await of the source is a suspension point: one action per await.  *)
(***************************************************************************)
EXTENDS Integers, Sequences, FiniteSets, TLC

\* ------------------------------------------------------------------ bounds
NumChannels == 2
MaxEvents == 2
MaxThreshold == 2
MaxInitCount == 2
MaxTicks == 3
TickMs == 500
MaxFaults == 1
MaxSweeps == 2
MaxCreates == 2
MaxCmds == 2
MaxActivities == 2
MaxRetries == 2
MaxParts == 2
MaxPart == 1

\* ------------------------------------------------------- program constants
\* cooldowns.set(id, Date.now() + 1 * 1000)
DebounceMs == 1000

\* null, for an id (ids are positive), for a name or URL, for a document
NoId == 0
NoTime == 0 - 1
Null == "null"
NoDoc == [id |-> NoId]
Channels == 1..NumChannels
Handlers == 1..MaxEvents
Cmds == 1..MaxCmds
\* ids of sticky records (_id): the initial store's, then the created ones
RecIds == 1..(NumChannels + MaxCreates)
\* message bodies an owner may have stored
Texts == {<<"s", "t">>}
Authors == {"user", "bot", "hook"}

\* token of the platform webhook with id w (never equal to an id)
TokenOf(w) == 0 - w


VARIABLES
    config,      \* the YAML configuration, read once at start
    store,       \* StickyMessageModel: _id -> document, or NoDoc
    live,        \* artifacts of the sticky system now live on the platform
    hooks,       \* webhooks that exist on the platform
    pendingDel,  \* message deletes requested by fire-and-forget callbacks
    cooldowns,   \* the module-level Map: channel -> next eligible time
    now,         \* Date.now()
    hs,          \* one messageCreate handler invocation per event slot
    sw,          \* the ensureWebhooks run in progress, if any
    cs,          \* one /sticky command execution per command slot
    cached,      \* the channels in client.channels.cache
    rateLimit,   \* each channel's slowmode setting
    nextRec,     \* the _id the database gives the next document
    nextId,      \* the id the platform gives the next message or webhook
    faults,      \* platform calls failed and webhooks revoked so far
    ghost,       \* history: calls made and counts applied (read by no action)
    vc           \* the checkForUpdates call of the VersionChecker, if any

vars == <<config, store, live, hooks, pendingDel, cooldowns, now, hs, sw, cs,
          cached, rateLimit, nextRec, nextId, faults, ghost, vc>>

\* what the bot changes (all but the version checker's call)
botVars == <<config, store, live, hooks, pendingDel, cooldowns, now, hs, sw,
             cs, cached, rateLimit, nextRec, nextId, faults, ghost>>

\* what only the commands and the channel cache change
cmdVars == <<cs, cached, rateLimit, nextRec>>

\* ------------------------------------------------------------ the store
\* a faulty variant: findOne finds nothing
FindOneNone(c) == NoDoc

\* StickyMessageModel.findOne({ channelId: c }): the first matching document
FindOne(c) ==
    LET ids == {i \in DOMAIN store : store[i] # NoDoc /\ store[i].channelId = c}
    IN  IF ids = {} THEN NoDoc
        ELSE store[CHOOSE i \in ids : \A j \in ids : i <= j]

\* a faulty variant: the update inserts a document when none has that _id
FindByIdAndUpdateUpsert(id, fields) ==
    LET blank == [id |-> id, channelId |-> IF id <= NumChannels THEN id ELSE 1,
                  message |-> <<>>, msgCount |-> 0, messageId |-> NoId,
                  useWebhook |-> FALSE, webhookId |-> NoId, webhookToken |-> NoId,
                  webhookName |-> Null, webhookAvatarURL |-> Null]
        old == IF store[id] = NoDoc THEN blank ELSE store[id]
    IN  [store EXCEPT ![id] =
            [f \in DOMAIN old |-> IF f \in DOMAIN fields THEN fields[f] ELSE old[f]]]

\* findByIdAndUpdate(id, fields): no document with that _id, no write
FindByIdAndUpdate(id, fields) ==
    IF store[id] = NoDoc THEN store
    ELSE [store EXCEPT ![id] =
            [f \in DOMAIN store[id] |->
                IF f \in DOMAIN fields THEN fields[f] ELSE store[id][f]]]

\* a faulty variant: the increment computed from the document read earlier
IncMsgCountStale(id, stickyMessage) ==
    IF store[id] = NoDoc THEN store
    ELSE [store EXCEPT ![id].msgCount = stickyMessage.msgCount + 1]

\* findByIdAndUpdate(id, { $inc: { msgCount: 1 } }): the increment is applied
\* by the database to the stored value
IncMsgCount(id, stickyMessage) ==
    IF store[id] = NoDoc THEN store
    ELSE [store EXCEPT ![id].msgCount = @ + 1]

\* --------------------------------------------------------- the platform
ArtifactsIn(c) == {a \in live : a.ch = c}

\* JavaScript's String.prototype.includes on the modelled bodies
Includes(body, part) ==
    \E i \in 0..(Len(body) - Len(part)) :
        \A k \in 1..Len(part) : body[i + k] = part[k]

\* the kind of payload the configuration makes every dispatch produce
PayloadKind == IF config.EnableEmbeds THEN "embed" ELSE "text"

\* the fallback scan's test of one fetched message against the sticky text
MatchesSticky(a, text) ==
    \/ ~config.EnableEmbeds /\ a.kind = "text" /\ Includes(a.body, text)
    \/ config.EnableEmbeds /\ a.kind = "embed" /\ Includes(a.body, text)

NewArtifact(c, via, text) ==
    [id |-> nextId, ch |-> c, via |-> via, body |-> text, kind |-> PayloadKind]

CanFail == faults < MaxFaults

\* ------------------------------------------- on("messageCreate") handler
IdleHandler ==
    [pc |-> "idle", ch |-> NoId, stickyMessage |-> NoDoc, oldMsg |-> NoId,
     sentMessage |-> NoId,
     \* history of the invocation, read by no action: the document it found,
     \* when it arrived and whether the channel was cooling down then, whether
     \* it read
     \* the document after a failed dispatch not yet made good, when it passed
     \* the gate, and the platform calls it has had answered
     \* (and the event itself: whether its author is the bot's own user,
     \* whether it has a guild, and the artifact of the sticky system whose
     \* posting it reports, if any)
     own |-> FALSE, guild |-> FALSE, of |-> NoId,
     rec |-> NoId, arrivedAt |-> NoTime, early |-> FALSE, afterFail |-> FALSE,
     resetsSeen |-> 0,
     gateAt |-> NoTime, deletes |-> 0, hookSends |-> 0, sends |-> 0]

\* the handler returns or throws: its locals are gone, its outcome stays
End(hrec, outcome) ==
    [hrec EXCEPT !.pc = outcome, !.stickyMessage = NoDoc, !.oldMsg = NoId]

\* where the handler goes once the previous artifact has been dealt with:
\* the webhook send when the stored record opts in and holds an identity,
\* the direct channel send otherwise
DispatchPc(stickyMessage) ==
    IF /\ stickyMessage.useWebhook
       /\ stickyMessage.webhookId # NoId
       /\ stickyMessage.webhookToken # NoId
    THEN "hookSend" ELSE "send"

\* Map.prototype.set
MapSet(m, k, v) == [x \in DOMAIN m \cup {k} |-> IF x = k THEN v ELSE m[x]]

\* a faulty variant: the window left in seconds
NextEligibleSeconds(t) == t + 1

\* Date.now() + 1 * 1000
NextEligible(t) == t + DebounceMs

\* cooldowns.has(id) is false, or cooldowns.get(id) <= Date.now()
GateOpen(c) == IF c \in DOMAIN cooldowns THEN cooldowns[c] <= now ELSE TRUE

\* stickyMessage.msgCount >= config.MaxMessages, on the document the handler
\* read with findOne
ThresholdReached(stickyMessage) == stickyMessage.msgCount >= config.MaxMessages

\* a faulty variant: only the bot's own messages are filtered
IgnoredOwnOnly(author, guild) == author = "bot"

\* message.author.id === message.client.user.id || !message.guild
Ignored(author, guild) == author = "bot" \/ ~guild

\* the event is dispatched to the handler; the author and guild filter runs
\* and findOne is called
H_Begin(h, c, author, guild, m) ==
    /\ hs[h].pc = "idle"
    /\ c \in cached
    /\ IF h = 1 THEN TRUE ELSE hs[h - 1].pc # "idle"
    /\ hs' = [hs EXCEPT ![h] =
                IF Ignored(author, guild)
                THEN End([@ EXCEPT !.own = author = "bot", !.guild = guild,
                                   !.of = m], "ignored")
                ELSE [@ EXCEPT !.pc = "findOne", !.ch = c, !.arrivedAt = now,
                               !.own = author = "bot", !.guild = guild, !.of = m,
                               !.early = c \in DOMAIN cooldowns /\ now < cooldowns[c]]]
    /\ UNCHANGED <<cmdVars, sw, config, vc, store, live, hooks, pendingDel, cooldowns, now,
                   nextId, faults, ghost>>

\* a message that is not a dispatch of the sticky system arrives
H_Start(h, c, author, guild) == H_Begin(h, c, author, guild, NoId)

\* the platform delivers the messageCreate event of an artifact the sticky
\* system posted since the process started: a direct post has the bot's user
\* as author, a webhook post has the webhook (author.id is the webhook's id)
H_Echo(h, a) ==
    /\ a \in live /\ a.id > NumChannels
    /\ \A g \in Handlers : hs[g].of # a.id
    /\ H_Begin(h, a.ch, IF a.via = "hook" THEN "hook" ELSE "bot", TRUE, a.id)

\* findOne answers; with a document, the $inc update is called
H_FindOne(h) ==
    /\ hs[h].pc = "findOne"
    /\ LET doc == FindOne(hs[h].ch)
       IN  hs' = [hs EXCEPT ![h] =
                    IF doc = NoDoc THEN End(@, "norecord")
                    ELSE [@ EXCEPT !.pc = "inc", !.stickyMessage = doc,
                                   !.rec = doc.id,
                                   !.afterFail = ghost.retryDue[doc.id],
                                   !.resetsSeen = ghost.resets[doc.id]]]
    /\ UNCHANGED <<cmdVars, sw, config, vc, store, live, hooks, pendingDel, cooldowns, now,
                   nextId, faults, ghost>>

\* the database applies the $inc
H_Inc(h) ==
    /\ hs[h].pc = "inc"
    /\ LET id == hs[h].stickyMessage.id
       IN  store' = IncMsgCount(id, hs[h].stickyMessage)
    /\ hs' = [hs EXCEPT ![h].pc = "gate"]
    /\ UNCHANGED <<cmdVars, sw, config, vc, live, hooks, pendingDel, cooldowns, now, nextId,
                   faults, ghost>>

\* the handler resumes: the debounce gate, then the threshold, then the first
\* call of the removal of the previous artifact
H_Gate(h) ==
    /\ hs[h].pc = "gate"
    /\ LET c == hs[h].ch
           sm == hs[h].stickyMessage
       IN  IF GateOpen(c)
           THEN /\ cooldowns' = MapSet(cooldowns, c, NextEligible(now))
                /\ hs' = [hs EXCEPT ![h] =
                            IF ~ThresholdReached(sm)
                            THEN End([@ EXCEPT !.gateAt = now], "below")
                            ELSE [@ EXCEPT !.gateAt = now,
                                           !.pc = IF sm.messageId # NoId
                                                  THEN "fetchOld" ELSE "fetchAll"]]
           ELSE /\ hs' = [hs EXCEPT ![h] = End(@, "skipped")]
                /\ UNCHANGED cooldowns
    /\ UNCHANGED <<cmdVars, sw, config, vc, store, live, hooks, pendingDel, now, nextId, faults,
                   ghost>>

\* channel.messages.fetch(messageId).catch(() => null) answers
H_FetchOld(h) ==
    /\ hs[h].pc = "fetchOld"
    /\ LET sm == hs[h].stickyMessage
           found == \E a \in ArtifactsIn(hs[h].ch) : a.id = sm.messageId
       IN  \/ /\ found
              /\ hs' = [hs EXCEPT ![h] =
                          [@ EXCEPT !.oldMsg = sm.messageId, !.pc = "delOld"]]
              /\ UNCHANGED <<faults, ghost>>
           \/ /\ ~found
              /\ hs' = [hs EXCEPT ![h].pc = DispatchPc(sm)]
              /\ UNCHANGED <<faults, ghost>>
           \/ /\ found /\ CanFail
              /\ faults' = faults + 1
              /\ ghost' = [ghost EXCEPT !.delFailed = TRUE]
              /\ hs' = [hs EXCEPT ![h].pc = DispatchPc(sm)]
    /\ UNCHANGED <<cmdVars, sw, config, vc, store, live, hooks, pendingDel, cooldowns, now,
                   nextId>>

\* oldMsg.delete().catch(() => {}) answers
H_DelOld(h) ==
    /\ hs[h].pc = "delOld"
    /\ LET sm == hs[h].stickyMessage
           there == \E a \in live : a.id = hs[h].oldMsg
       IN  /\ hs' = [hs EXCEPT ![h] =
                       [@ EXCEPT !.deletes = @ + 1, !.pc = DispatchPc(sm)]]
           /\ \/ /\ live' = {a \in live : a.id # hs[h].oldMsg}
                 /\ UNCHANGED <<faults, ghost>>
              \/ /\ there /\ CanFail
                 /\ faults' = faults + 1
                 /\ ghost' = [ghost EXCEPT !.delFailed = TRUE]
                 /\ UNCHANGED live
    /\ UNCHANGED <<cmdVars, sw, config, vc, store, hooks, pendingDel, cooldowns, now, nextId>>

\* channel.messages.fetch() answers (no catch: a failure leaves the handler);
\* forEach starts one async callback per message, each calling msg.delete()
\* on a match, and the handler goes on without awaiting them
H_FetchAll(h) ==
    /\ hs[h].pc = "fetchAll"
    /\ LET sm == hs[h].stickyMessage
           hits == {a.id : a \in {b \in ArtifactsIn(hs[h].ch) :
                                      MatchesSticky(b, sm.message)}}
       IN  \/ /\ pendingDel' = pendingDel \cup hits
              /\ hs' = [hs EXCEPT ![h] =
                          [@ EXCEPT !.deletes = @ + Cardinality(hits),
                                    !.pc = DispatchPc(sm)]]
              /\ UNCHANGED faults
           \/ /\ CanFail
              /\ faults' = faults + 1
              /\ hs' = [hs EXCEPT ![h] = End(@, "failed")]
              /\ UNCHANGED pendingDel
    /\ UNCHANGED <<cmdVars, sw, config, vc, store, live, hooks, cooldowns, now, nextId, ghost>>

\* the platform serves one msg.delete() of a forEach callback; its failure is
\* caught by the callback
PlatformDelete(m) ==
    /\ m \in pendingDel
    /\ pendingDel' = pendingDel \ {m}
    /\ \/ /\ live' = {a \in live : a.id # m}
          /\ UNCHANGED <<faults, ghost>>
       \/ /\ CanFail /\ \E a \in live : a.id = m
          /\ faults' = faults + 1
          /\ ghost' = [ghost EXCEPT !.delFailed = TRUE]
          /\ UNCHANGED live
    /\ UNCHANGED <<cmdVars, sw, config, vc, store, hooks, cooldowns, now, hs, nextId>>

\* a faulty variant: no catch around the webhook send
HookSendRethrows(hrec) == [hrec EXCEPT !.hookSends = @ + 1, !.pc = "failed"]

\* a faulty variant: the direct post is tried again on failure
SendFailedRetry(hrec) == [hrec EXCEPT !.sends = @ + 1]

\* the catch around the webhook send: on to channel.send
HookSendFailed(hrec) == [hrec EXCEPT !.hookSends = @ + 1, !.pc = "send"]

\* channel.send rejects, nothing catches it: the handler ends with the error
SendFailed(hrec) == End([hrec EXCEPT !.sends = @ + 1], "failed")

\* hookClient.send(...) answers: the message, or an error (caught: the
\* handler falls back to channel.send)
H_HookSend(h) ==
    /\ hs[h].pc = "hookSend"
    /\ LET sm == hs[h].stickyMessage
           target == {w \in hooks : w.id = sm.webhookId /\ TokenOf(w.id) = sm.webhookToken}
       IN  \/ \E w \in target :
                 /\ live' = live \cup {NewArtifact(w.ch, "hook", sm.message)}
                 /\ nextId' = nextId + 1
                 /\ hs' = [hs EXCEPT ![h] =
                             [@ EXCEPT !.hookSends = @ + 1, !.sentMessage = nextId,
                                       !.pc = "update"]]
                 /\ UNCHANGED faults
           \/ /\ target = {} \/ CanFail
              /\ faults' = IF target = {} THEN faults ELSE faults + 1
              /\ hs' = [hs EXCEPT ![h] = HookSendFailed(@)]
              /\ UNCHANGED <<live, nextId>>
    /\ UNCHANGED <<cmdVars, sw, config, vc, store, hooks, pendingDel, cooldowns, now, ghost>>

\* message.channel.send(...) answers: the message, or an error that leaves
\* the handler
H_Send(h) ==
    /\ hs[h].pc = "send"
    /\ LET sm == hs[h].stickyMessage
       IN  \/ /\ hs[h].ch \in cached
              /\ live' = live \cup {NewArtifact(hs[h].ch, "bot", sm.message)}
              /\ nextId' = nextId + 1
              /\ hs' = [hs EXCEPT ![h] =
                          [@ EXCEPT !.sends = @ + 1, !.sentMessage = nextId,
                                    !.pc = "update"]]
              /\ UNCHANGED <<faults, ghost>>
           \/ /\ CanFail \/ hs[h].ch \notin cached
              /\ faults' = IF hs[h].ch \in cached THEN faults + 1 ELSE faults
              /\ hs' = [hs EXCEPT ![h] = SendFailed(@)]
              /\ ghost' = [ghost EXCEPT !.retryDue[hs[h].rec] =
                              @ \/ ghost.resets[hs[h].rec] = hs[h].resetsSeen]
              /\ UNCHANGED <<live, nextId>>
    /\ UNCHANGED <<cmdVars, sw, config, vc, store, hooks, pendingDel, cooldowns, now>>

\* a faulty variant: the count is left as it is
RepostFieldsNoReset(sentMessage) == [messageId |-> sentMessage]

\* the fields of the handler's last update
RepostFields(sentMessage) == [msgCount |-> 0, messageId |-> sentMessage]

\* findByIdAndUpdate(_id, { msgCount: 0, messageId: sentMessage.id }) is applied
H_Update(h) ==
    /\ hs[h].pc = "update"
    /\ LET id == hs[h].stickyMessage.id
       IN  /\ store' = FindByIdAndUpdate(id, RepostFields(hs[h].sentMessage))
           /\ ghost' = IF store[id] = NoDoc THEN ghost
                       ELSE [ghost EXCEPT !.resets[id] = @ + 1,
                                          !.retryDue[id] = FALSE]
    /\ hs' = [hs EXCEPT ![h] = End(@, "done")]
    /\ UNCHANGED <<cmdVars, sw, config, vc, live, hooks, pendingDel, cooldowns, now, nextId,
                   faults>>

\* ------------------------------------------------------- the environment
\* time passes (while no channel is cooling down, the time read by the gate
\* decides nothing, and the clock is left where it is)
Tick ==
    /\ now < MaxTicks * TickMs
    /\ \E c \in DOMAIN cooldowns : cooldowns[c] > now
    /\ now' = now + TickMs
    /\ UNCHANGED <<cmdVars, sw, config, vc, store, live, hooks, pendingDel, cooldowns, hs,
                   nextId, faults, ghost>>

\* somebody removes a webhook on the platform
RevokeWebhook(w) ==
    /\ w \in hooks
    /\ CanFail
    /\ faults' = faults + 1
    /\ hooks' = hooks \ {w}
    /\ ghost' = [ghost EXCEPT !.revoked = TRUE]
    /\ UNCHANGED <<cmdVars, sw, config, vc, store, live, pendingDel, cooldowns, now, hs,
                   nextId>>

\* --------------------------------------------------------- ensureWebhooks
\* found, skipped, lookups, calls, made and lost keep, for the run, what find
\* returned, the documents passed over, the webhook lists fetchWebhooks
\* returned, the createWebhook calls made per document, the webhooks they
\* returned and the documents whose update failed
NoLookup == [answered |-> FALSE, failed |-> FALSE, ids |-> {}]
IdleSweep ==
    [pc |-> "idle", records |-> <<>>, created |-> NoId, runs |-> 0,
     found |-> <<>>, skipped |-> {}, lookups |-> [i \in RecIds |-> NoLookup],
     calls |-> [i \in RecIds |-> 0], made |-> [i \in RecIds |-> NoId],
     lost |-> {}]

\* a || b on a name or URL
OrElse(a, b) == IF a # Null THEN a ELSE b

\* a faulty variant: every channel id is taken as resolvable
ResolvableAlways(c) == TRUE

\* client.channels.cache.get(channelId) finds the channel
Resolvable(c) == c \in cached

\* a faulty variant: find returns the first such document only
FindUseWebhookFirst(i) ==
    LET ids == {j \in RecIds : j >= i /\ store[j] # NoDoc /\ store[j].useWebhook}
    IN  IF ids = {} THEN <<>>
        ELSE <<store[CHOOSE j \in ids : \A k \in ids : j <= k]>>

\* StickyMessageModel.find({ useWebhook: true }), in _id order
RECURSIVE FindUseWebhook(_)
FindUseWebhook(i) ==
    IF i \notin RecIds THEN <<>>
    ELSE IF store[i] # NoDoc /\ store[i].useWebhook
         THEN <<store[i]>> \o FindUseWebhook(i + 1)
         ELSE FindUseWebhook(i + 1)

\* the for loop up to its next await: records whose channel is not in the
\* cache are skipped; a record without id or token goes to createWebhook,
\* any other to fetchWebhooks; after the last record the run is over
RECURSIVE LoopHead(_, _)
LoopHead(run, records) ==
    IF records = <<>>
    THEN [run EXCEPT !.pc = "idle", !.records = <<>>, !.created = NoId]
    ELSE LET rec == Head(records)
         IN  IF ~Resolvable(rec.channelId)
             THEN LoopHead([run EXCEPT !.skipped = @ \cup {rec.id}], Tail(records))
             ELSE [run EXCEPT !.records = records, !.created = NoId,
                              !.pc = IF rec.webhookId = NoId \/ rec.webhookToken = NoId
                                     THEN "create" ELSE "fetchHooks"]

\* a faulty variant: the error of createWebhook or of the update reaches the
\* outer catch, which ends the run
InnerCatchNone(run) == [run EXCEPT !.pc = "idle"]

\* catch {} around createWebhook and the update: on to the next record
InnerCatch(run) == LoopHead(run, Tail(run.records))

\* the name and avatar the new webhook gets
HookName(rec) == OrElse(rec.webhookName, OrElse(config.WebhookName, "Sticky"))
HookAvatar(rec) == OrElse(rec.webhookAvatarURL, config.WebhookAvatarURL)

\* a faulty variant: the sweep's update also writes the count
CreatedFieldsReset(rec, created) ==
    [webhookId |-> created, webhookToken |-> TokenOf(created),
     webhookName |-> HookName(rec), webhookAvatarURL |-> HookAvatar(rec),
     msgCount |-> 0]

\* a faulty variant: the document's old id and token are written back
CreatedFieldsOld(rec, created) ==
    [webhookId |-> rec.webhookId, webhookToken |-> rec.webhookToken,
     webhookName |-> HookName(rec), webhookAvatarURL |-> HookAvatar(rec)]

\* the fields the sweep persists for a webhook it created
CreatedFields(rec, created) ==
    [webhookId |-> created, webhookToken |-> TokenOf(created),
     webhookName |-> HookName(rec), webhookAvatarURL |-> HookAvatar(rec)]

\* the run starts (at start-up or from the interval timer) and calls find
S_Start ==
    /\ sw.pc = "idle"
    /\ sw.runs < MaxSweeps
    /\ \/ config.CreateOnStartup /\ sw.runs = 0
       \/ config.CheckIntervalSeconds > 0
    /\ sw' = [IdleSweep EXCEPT !.pc = "find", !.runs = sw.runs + 1]
    /\ UNCHANGED <<cmdVars, config, vc, store, live, hooks, pendingDel, cooldowns, now, hs,
                   nextId, faults, ghost>>

\* the run starts as S_Start, any number of times; runs stops counting at
\* MaxSweeps.  (A timer that fires while a run is in flight starts a second
\* run next to it; one run at a time is kept here.)
S_Interval ==
    /\ sw.pc = "idle"
    /\ \/ config.CreateOnStartup /\ sw.runs = 0
       \/ config.CheckIntervalSeconds > 0
    /\ sw' = [IdleSweep EXCEPT !.pc = "find",
                               !.runs = IF sw.runs < MaxSweeps THEN sw.runs + 1
                                        ELSE sw.runs]
    /\ UNCHANGED <<cmdVars, config, vc, store, live, hooks, pendingDel, cooldowns, now, hs,
                   nextId, faults, ghost>>

\* find answers: the documents, or an error (caught by the outer try: the
\* run is over)
S_Find ==
    /\ sw.pc = "find"
    /\ \/ /\ sw' = LoopHead([sw EXCEPT !.found = FindUseWebhook(1)], FindUseWebhook(1))
          /\ UNCHANGED faults
          /\ UNCHANGED ghost
       \/ /\ CanFail
          /\ faults' = faults + 1
          /\ sw' = [sw EXCEPT !.pc = "idle"]
          /\ ghost' = [ghost EXCEPT !.findFailed = TRUE]
    /\ UNCHANGED <<cmdVars, config, vc, store, live, hooks, pendingDel, cooldowns, now, hs,
                   nextId>>

\* a faulty variant: the list is searched for the token
HookExistsByToken(rec) ==
    \E w \in hooks : w.ch = rec.channelId /\ w.id = rec.webhookToken

\* hooks.some(h => h.id === rec.webhookId), on the channel's webhooks
HookExists(rec) == \E w \in hooks : w.ch = rec.channelId /\ w.id = rec.webhookId

\* channel.fetchWebhooks() answers: the list, or an error (caught: the record
\* is treated as having no webhook)
S_FetchHooks ==
    /\ sw.pc = "fetchHooks"
    /\ LET rec == Head(sw.records)
           exists == HookExists(rec)
           listed == [answered |-> TRUE, failed |-> FALSE,
                      ids |-> {w.id : w \in {v \in hooks : v.ch = rec.channelId}}]
           thrown == [answered |-> TRUE, failed |-> TRUE, ids |-> {}]
       IN  \/ /\ exists
              /\ sw' = LoopHead([sw EXCEPT !.lookups[rec.id] = listed], Tail(sw.records))
              /\ UNCHANGED <<faults, ghost>>
           \/ /\ ~exists
              /\ sw' = [sw EXCEPT !.pc = "create", !.lookups[rec.id] = listed]
              /\ UNCHANGED <<faults, ghost>>
           \/ /\ exists /\ CanFail
              /\ faults' = faults + 1
              /\ sw' = [sw EXCEPT !.pc = "create", !.lookups[rec.id] = thrown]
              /\ ghost' = [ghost EXCEPT !.lookupFailed = TRUE]
    /\ UNCHANGED <<cmdVars, config, vc, store, live, hooks, pendingDel, cooldowns, now, hs,
                   nextId>>

\* channel.createWebhook(...) answers: the webhook, or an error (caught: on
\* to the next record)
S_Create ==
    /\ sw.pc = "create"
    /\ LET rec == Head(sw.records)
       IN  \/ /\ rec.channelId \in cached
              /\ hooks' = hooks \cup {[id |-> nextId, ch |-> rec.channelId]}
              /\ nextId' = nextId + 1
              /\ sw' = [sw EXCEPT !.pc = "persist", !.created = nextId,
                                   !.calls[rec.id] = @ + 1, !.made[rec.id] = nextId]
              /\ ghost' = [ghost EXCEPT !.createCalls = @ + 1]
              /\ UNCHANGED faults
           \/ /\ CanFail \/ rec.channelId \notin cached
              /\ faults' = IF rec.channelId \in cached THEN faults + 1 ELSE faults
              /\ sw' = InnerCatch([sw EXCEPT !.calls[rec.id] = @ + 1])
              /\ ghost' = [ghost EXCEPT !.createCalls = @ + 1, !.createFailed = TRUE]
              /\ UNCHANGED <<hooks, nextId>>
    /\ UNCHANGED <<cmdVars, config, vc, store, live, pendingDel, cooldowns, now, hs>>

\* findByIdAndUpdate(rec._id, { webhookId, webhookToken, ... }) is applied,
\* or it fails (caught: on to the next record)
S_Persist ==
    /\ sw.pc = "persist"
    /\ LET rec == Head(sw.records)
       IN  \/ /\ store' = FindByIdAndUpdate(rec.id, CreatedFields(rec, sw.created))
              /\ sw' = LoopHead(sw, Tail(sw.records))
              /\ UNCHANGED <<faults, ghost>>
           \/ /\ CanFail
              /\ faults' = faults + 1
              /\ sw' = InnerCatch([sw EXCEPT !.lost = @ \cup {rec.id}])
              /\ ghost' = [ghost EXCEPT !.persistFailed = TRUE]
              /\ UNCHANGED store
    /\ UNCHANGED <<cmdVars, config, vc, live, hooks, pendingDel, cooldowns, now, hs, nextId>>

\* ------------------------------------------------------ /sticky commands
IdleCmd ==
    [pc |-> "idle", kind |-> "none", ch |-> NoId, stickyMessage |-> NoDoc,
     msg |-> <<>>, hookOpt |-> "unset", manageWebhooks |-> FALSE,
     useWebhook |-> FALSE, hook |-> NoId, oldMsg |-> NoId, sentMessage |-> NoId,
     records |-> <<>>, reply |-> "none"]

\* the command returns or throws: its locals are gone, its reply stays
EndCmd(crec, reply) ==
    [IdleCmd EXCEPT !.pc = "ended", !.kind = crec.kind, !.ch = crec.ch,
                    !.reply = reply]

\* msg.replace(/\\n/g, '\n'): each backslash followed by n becomes a newline
RECURSIVE Normalize(_)
Normalize(text) ==
    IF Len(text) < 2 THEN text
    ELSE IF text[1] = "\\" /\ text[2] = "n"
         THEN <<"\n">> \o Normalize(SubSeq(text, 3, Len(text)))
         ELSE <<text[1]>> \o Normalize(Tail(text))

\* the texts a 'create' command is given
CreateTexts == {<<"s", "\\", "n">>}

\* a faulty variant: findOneAndDelete removes nothing
FindOneAndDeleteNone(c) == store

\* findOneAndDelete({ channelId: c }): the first matching document goes
FindOneAndDelete(c) ==
    LET doc == FindOne(c)
    IN  IF doc = NoDoc THEN store ELSE [store EXCEPT ![doc.id] = NoDoc]

\* StickyMessageModel.find(), in _id order
RECURSIVE FindAll(_)
FindAll(i) ==
    IF i \notin RecIds THEN <<>>
    ELSE IF store[i] # NoDoc THEN <<store[i]>> \o FindAll(i + 1)
         ELSE FindAll(i + 1)

\* the command is dispatched: the permission check, then the first call of
\* the subcommand
X_Start(k, kind, c, text, hookOpt, manageMessages, manageWebhooks) ==
    /\ cs[k].pc = "idle"
    /\ IF k = 1 THEN TRUE ELSE cs[k - 1].pc # "idle"
    /\ c \in cached
    /\ kind = "create" =>
          Cardinality({j \in Cmds : cs[j].kind = "create"}) < MaxCreates
    /\ cs' = [cs EXCEPT ![k] =
                IF ~manageMessages
                THEN EndCmd([@ EXCEPT !.kind = kind, !.ch = c], "denied")
                ELSE [@ EXCEPT !.kind = kind, !.ch = c,
                               !.pc = IF kind = "create" THEN "c_find"
                                      ELSE IF kind = "delete" THEN "d_find"
                                      ELSE "l_find",
                               !.msg = IF kind = "create" THEN text ELSE <<>>,
                               !.hookOpt = IF kind = "create" THEN hookOpt ELSE "unset",
                               !.manageWebhooks = kind = "create" /\ manageWebhooks]]
    /\ UNCHANGED <<config, vc, store, live, hooks, pendingDel, cooldowns, now, hs,
                   sw, cached, rateLimit, nextRec, nextId, faults, ghost>>

\* create: findOne answers; a document means the already-exists reply,
\* otherwise the text is normalised, the webhook option resolved and the
\* first platform call made
C_Find(k) ==
    /\ cs[k].pc = "c_find"
    /\ LET useWebhook == IF cs[k].hookOpt = "unset" THEN config.EnabledByDefault
                         ELSE cs[k].hookOpt = "true"
       IN  cs' = [cs EXCEPT ![k] =
                    IF FindOne(cs[k].ch) # NoDoc THEN EndCmd(@, "exists")
                    ELSE IF useWebhook /\ ~cs[k].manageWebhooks
                         THEN EndCmd(@, "denied")
                    ELSE [@ EXCEPT !.msg = Normalize(@), !.useWebhook = useWebhook,
                                   !.pc = IF useWebhook THEN "c_hook" ELSE "c_send"]]
    /\ UNCHANGED <<config, vc, store, live, hooks, pendingDel, cooldowns, now, hs,
                   sw, cached, rateLimit, nextRec, nextId, faults, ghost>>

\* create: channel.createWebhook answers (no catch: a failure leaves the
\* command)
C_Hook(k) ==
    /\ cs[k].pc = "c_hook"
    /\ \/ /\ cs[k].ch \in cached
          /\ hooks' = hooks \cup {[id |-> nextId, ch |-> cs[k].ch]}
          /\ nextId' = nextId + 1
          /\ cs' = [cs EXCEPT ![k] = [@ EXCEPT !.hook = nextId, !.pc = "c_hookSend"]]
          /\ UNCHANGED faults
       \/ /\ CanFail \/ cs[k].ch \notin cached
          /\ faults' = IF cs[k].ch \in cached THEN faults + 1 ELSE faults
          /\ cs' = [cs EXCEPT ![k] = EndCmd(@, "failed")]
          /\ UNCHANGED <<hooks, nextId>>
    /\ UNCHANGED <<config, vc, store, live, pendingDel, cooldowns, now, hs, sw,
                   cached, rateLimit, nextRec, ghost>>

\* create: hookClient.send answers; on an error useWebhook is dropped and the
\* direct post is made
C_HookSend(k) ==
    /\ cs[k].pc = "c_hookSend"
    /\ LET target == {w \in hooks : w.id = cs[k].hook}
       IN  \/ \E w \in target :
                 /\ live' = live \cup {NewArtifact(w.ch, "hook", cs[k].msg)}
                 /\ nextId' = nextId + 1
                 /\ cs' = [cs EXCEPT ![k] =
                             [@ EXCEPT !.sentMessage = nextId, !.pc = "c_store"]]
                 /\ UNCHANGED faults
           \/ /\ target = {} \/ CanFail
              /\ faults' = IF target = {} THEN faults ELSE faults + 1
              /\ cs' = [cs EXCEPT ![k] =
                          [@ EXCEPT !.useWebhook = FALSE, !.hook = NoId, !.pc = "c_send"]]
              /\ UNCHANGED <<live, nextId>>
    /\ UNCHANGED <<config, vc, store, hooks, pendingDel, cooldowns, now, hs, sw,
                   cached, rateLimit, nextRec, ghost>>

\* create: interaction.channel.send answers (no catch)
C_Send(k) ==
    /\ cs[k].pc = "c_send"
    /\ \/ /\ cs[k].ch \in cached
          /\ live' = live \cup {NewArtifact(cs[k].ch, "bot", cs[k].msg)}
          /\ nextId' = nextId + 1
          /\ cs' = [cs EXCEPT ![k] = [@ EXCEPT !.sentMessage = nextId, !.pc = "c_store"]]
          /\ UNCHANGED faults
       \/ /\ CanFail \/ cs[k].ch \notin cached
          /\ faults' = IF cs[k].ch \in cached THEN faults + 1 ELSE faults
          /\ cs' = [cs EXCEPT ![k] = EndCmd(@, "failed")]
          /\ UNCHANGED <<live, nextId>>
    /\ UNCHANGED <<config, vc, store, hooks, pendingDel, cooldowns, now, hs, sw,
                   cached, rateLimit, nextRec, ghost>>

\* a faulty variant: the webhook's identity is left out of the document
CreatedDocNoIdentity(crec, id) ==
    [id |-> id, channelId |-> crec.ch, message |-> crec.msg, msgCount |-> 0,
     messageId |-> crec.sentMessage, useWebhook |-> crec.useWebhook,
     webhookId |-> NoId, webhookToken |-> NoId,
     webhookName |-> Null, webhookAvatarURL |-> Null]

\* the document the 'create' command stores
CreatedDoc(crec, id) ==
    [id |-> id, channelId |-> crec.ch, message |-> crec.msg, msgCount |-> 0,
     messageId |-> crec.sentMessage, useWebhook |-> crec.useWebhook,
     webhookId |-> crec.hook,
     webhookToken |-> IF crec.hook # NoId THEN TokenOf(crec.hook) ELSE NoId,
     webhookName |-> IF crec.hook # NoId
                     THEN OrElse(config.WebhookName, "Sticky") ELSE Null,
     webhookAvatarURL |-> IF crec.hook # NoId THEN config.WebhookAvatarURL ELSE Null]

\* a faulty variant: the store has no unique key
AlreadyExistsNever(c) == FALSE

\* the store's create fails with AlreadyExists when a document of the channel
\* is stored (channelId is the store's unique key)
AlreadyExists(c) == FindOne(c) # NoDoc

\* create: StickyMessage.create is applied, and the reply and the slowmode
\* follow, or it fails (no catch: a failure leaves the command)
C_Store(k) ==
    /\ cs[k].pc = "c_store"
    /\ IF AlreadyExists(cs[k].ch)
       THEN /\ cs' = [cs EXCEPT ![k] = EndCmd(@, "failed")]
            /\ UNCHANGED <<store, nextRec, rateLimit>>
       ELSE /\ store' = [store EXCEPT ![nextRec] = CreatedDoc(cs[k], nextRec)]
            /\ nextRec' = nextRec + 1
            /\ rateLimit' = IF config.EnableSlowmode
                            THEN [rateLimit EXCEPT ![cs[k].ch] = "delay"]
                            ELSE rateLimit
            /\ cs' = [cs EXCEPT ![k] = EndCmd(@, "created")]
    /\ UNCHANGED <<config, vc, live, hooks, pendingDel, cooldowns, now, hs, sw,
                   cached, nextId, faults, ghost>>

\* a faulty variant: the test for a missing document never fires
MissingNever(doc) == FALSE

\* !stickyMessage: findOne answered null
Missing(doc) == doc = NoDoc

\* delete: findOne answers; no document means the not-found reply
D_Find(k) ==
    /\ cs[k].pc = "d_find"
    /\ LET doc == FindOne(cs[k].ch)
       IN  cs' = [cs EXCEPT ![k] =
                    IF Missing(doc) THEN EndCmd(@, "notfound")
                    ELSE [@ EXCEPT !.stickyMessage = doc, !.pc = "d_delete"]]
    /\ UNCHANGED <<config, vc, store, live, hooks, pendingDel, cooldowns, now, hs,
                   sw, cached, rateLimit, nextRec, nextId, faults, ghost>>

\* delete: findOneAndDelete is applied; then the fetch of the artifact, by id
\* or by scan
D_Delete(k) ==
    /\ cs[k].pc = "d_delete"
    /\ store' = FindOneAndDelete(cs[k].ch)
    /\ cs' = [cs EXCEPT ![k].pc =
                IF cs[k].stickyMessage.messageId # NoId THEN "d_fetchOld"
                ELSE "d_fetchAll"]
    /\ UNCHANGED <<config, vc, live, hooks, pendingDel, cooldowns, now, hs, sw,
                   cached, rateLimit, nextRec, nextId, faults, ghost>>

\* delete: the slowmode is lifted and the success reply sent
Deleted(crec) == EndCmd(crec, "deleted")
LiftSlowmode(c) ==
    IF config.EnableSlowmode THEN [rateLimit EXCEPT ![c] = "0"] ELSE rateLimit

\* delete: messages.fetch(messageId).catch(() => null) answers
D_FetchOld(k) ==
    /\ cs[k].pc = "d_fetchOld"
    /\ LET mid == cs[k].stickyMessage.messageId
           found == \E a \in ArtifactsIn(cs[k].ch) : a.id = mid
       IN  \/ /\ found
              /\ cs' = [cs EXCEPT ![k] = [@ EXCEPT !.oldMsg = mid, !.pc = "d_delOld"]]
              /\ UNCHANGED <<faults, ghost, rateLimit>>
           \/ /\ ~found
              /\ cs' = [cs EXCEPT ![k] = Deleted(@)]
              /\ rateLimit' = LiftSlowmode(cs[k].ch)
              /\ UNCHANGED <<faults, ghost>>
           \/ /\ found /\ CanFail
              /\ faults' = faults + 1
              /\ ghost' = [ghost EXCEPT !.delFailed = TRUE]
              /\ cs' = [cs EXCEPT ![k] = Deleted(@)]
              /\ rateLimit' = LiftSlowmode(cs[k].ch)
    /\ UNCHANGED <<config, vc, store, live, hooks, pendingDel, cooldowns, now, hs,
                   sw, cached, nextRec, nextId>>

\* delete: oldMsg.delete().catch(() => {}) answers
D_DelOld(k) ==
    /\ cs[k].pc = "d_delOld"
    /\ cs' = [cs EXCEPT ![k] = Deleted(@)]
    /\ rateLimit' = LiftSlowmode(cs[k].ch)
    /\ \/ /\ live' = {a \in live : a.id # cs[k].oldMsg}
          /\ UNCHANGED <<faults, ghost>>
       \/ /\ CanFail /\ \E a \in live : a.id = cs[k].oldMsg
          /\ faults' = faults + 1
          /\ ghost' = [ghost EXCEPT !.delFailed = TRUE]
          /\ UNCHANGED live
    /\ UNCHANGED <<config, vc, store, hooks, pendingDel, cooldowns, now, hs, sw,
                   cached, nextRec, nextId>>

\* delete: messages.fetch() answers (no catch); forEach starts one callback
\* per message, each deleting on a match of the content, none awaited
D_FetchAll(k) ==
    /\ cs[k].pc = "d_fetchAll"
    /\ LET hits == {a.id : a \in {b \in ArtifactsIn(cs[k].ch) :
                        b.kind = "text" /\ Includes(b.body, cs[k].stickyMessage.message)}}
       IN  \/ /\ pendingDel' = pendingDel \cup hits
              /\ cs' = [cs EXCEPT ![k] = Deleted(@)]
              /\ rateLimit' = LiftSlowmode(cs[k].ch)
              /\ UNCHANGED faults
           \/ /\ CanFail
              /\ faults' = faults + 1
              /\ cs' = [cs EXCEPT ![k] = EndCmd(@, "failed")]
              /\ UNCHANGED <<pendingDel, rateLimit>>
    /\ UNCHANGED <<config, vc, store, live, hooks, cooldowns, now, hs, sw, cached,
                   nextRec, nextId, ghost>>

\* list: the for loop up to its next await: documents whose channel is in
\* the cache become fields of the reply, the first one whose channel is not
\* goes to findOneAndDelete; after the last document the reply is sent
RECURSIVE ListHead(_, _)
ListHead(crec, records) ==
    IF records = <<>> THEN EndCmd(crec, "listed")
    ELSE IF Resolvable(Head(records).channelId) THEN ListHead(crec, Tail(records))
    ELSE [crec EXCEPT !.records = records, !.pc = "l_delete"]

\* list: find answers
L_Find(k) ==
    /\ cs[k].pc = "l_find"
    /\ LET all == FindAll(1)
       IN  cs' = [cs EXCEPT ![k] =
                    IF all = <<>> THEN EndCmd(@, "empty") ELSE ListHead(@, all)]
    /\ UNCHANGED <<config, vc, store, live, hooks, pendingDel, cooldowns, now, hs,
                   sw, cached, rateLimit, nextRec, nextId, faults, ghost>>

\* list: findOneAndDelete({ channelId }) is applied
L_Delete(k) ==
    /\ cs[k].pc = "l_delete"
    /\ store' = FindOneAndDelete(Head(cs[k].records).channelId)
    /\ cs' = [cs EXCEPT ![k] = ListHead(@, Tail(cs[k].records))]
    /\ UNCHANGED <<config, vc, live, hooks, pendingDel, cooldowns, now, hs, sw,
                   cached, rateLimit, nextRec, nextId, faults, ghost>>

\* a channel is removed on the platform, with its messages and webhooks, and
\* leaves the cache
ChannelGone(c) ==
    /\ c \in cached
    /\ CanFail
    /\ faults' = faults + 1
    /\ cached' = cached \ {c}
    /\ live' = {a \in live : a.ch # c}
    /\ hooks' = {w \in hooks : w.ch # c}
    /\ ghost' = [ghost EXCEPT !.revoked = TRUE]
    /\ UNCHANGED <<config, vc, store, pendingDel, cooldowns, now, hs, sw, cs,
                   rateLimit, nextRec, nextId>>

\* ------------------------------------------------------------ initial state
\* config.Webhooks.Name, or the literal the code falls back to
DefaultHookName == IF config.WebhookName # Null THEN config.WebhookName ELSE "Sticky"

\* a document as the 'create' command stores it, after n counted messages
Doc(c, text, n, mid, viaHook) ==
    [id |-> c, channelId |-> c, message |-> text, msgCount |-> n,
     messageId |-> mid, useWebhook |-> viaHook,
     webhookId |-> IF viaHook THEN c ELSE NoId,
     webhookToken |-> IF viaHook THEN TokenOf(c) ELSE NoId,
     webhookName |-> IF viaHook THEN DefaultHookName ELSE Null,
     webhookAvatarURL |-> IF viaHook THEN config.WebhookAvatarURL ELSE Null]

\* what the database may hold for channel c when the process starts: nothing,
\* or a document with its artifact posted (messageId is null on documents
\* stored before the artifact id was tracked)
InitDocs(c) ==
    IF c = 1
    THEN {Doc(c, t, n, mid, wh) :
            t \in Texts, n \in 0..MaxInitCount, mid \in {NoId, c}, wh \in BOOLEAN}
    ELSE {NoDoc, Doc(c, CHOOSE t \in Texts : TRUE, 0, c, FALSE)}

\* the configurations the handler is checked under (it reads no Webhooks key)
Configs ==
    [MaxMessages : 1..MaxThreshold, EnableEmbeds : BOOLEAN,
     WebhookName : {Null}, WebhookAvatarURL : {Null},
     EnabledByDefault : {FALSE}, EnableSlowmode : {FALSE},
     CreateOnStartup : {TRUE}, CheckIntervalSeconds : {30}]

\* the configurations the sweep is checked under
SweepConfigs ==
    [MaxMessages : {1}, EnableEmbeds : {FALSE},
     WebhookName : {Null, "Hook"}, WebhookAvatarURL : {Null, "url"},
     EnabledByDefault : {FALSE}, EnableSlowmode : {FALSE},
     CreateOnStartup : {TRUE}, CheckIntervalSeconds : {30}]

\* the configurations the periodic sweep is checked under
LiveConfigs ==
    [MaxMessages : {1}, EnableEmbeds : {FALSE},
     WebhookName : {Null}, WebhookAvatarURL : {Null},
     EnabledByDefault : {FALSE}, EnableSlowmode : {FALSE},
     CreateOnStartup : BOOLEAN, CheckIntervalSeconds : {0, 30}]

\* documents that opted into webhook delivery, for the sweep
SweepDocs(c) ==
    {Doc(c, t, 0, c, wh) : t \in Texts, wh \in IF c = 1 THEN {TRUE} ELSE BOOLEAN}

\* the configurations the commands are checked under
CmdConfigs ==
    [MaxMessages : {1}, EnableEmbeds : {FALSE},
     WebhookName : {Null}, WebhookAvatarURL : {Null},
     EnabledByDefault : BOOLEAN, EnableSlowmode : BOOLEAN,
     CreateOnStartup : {TRUE}, CheckIntervalSeconds : {30}]

\* the documents the commands start from: none, or one that has counted
CmdDocs(c) ==
    {NoDoc} \cup {Doc(c, CHOOSE t \in Texts : TRUE, 1, mid, wh) :
                    mid \in IF c = 1 THEN {NoId, c} ELSE {c},
                    wh \in IF c = 1 THEN BOOLEAN ELSE {TRUE}}

\* the webhooks the stored documents name
StoredHooks ==
    {[id |-> c, ch |-> c] :
        c \in {d \in Channels : store[d] # NoDoc /\ store[d].useWebhook}}

\* the stores that hold, for each channel c, one of docs[c] under the _id c,
\* and nothing under the other _ids
Stores(docs) ==
    {[i \in RecIds |-> IF i \in Channels THEN f[i] ELSE NoDoc] :
        f \in {g \in [Channels -> {NoDoc} \cup UNION {docs[c] : c \in Channels}] :
                    \A c \in Channels : g[c] \in docs[c]}}

\* ---------------------------------------------------- the version checker
\* a segment of a version string that parseInt reads as NaN
NaNSeg == 0 - 1

\* version strings: an optional leading v, then segments separated by dots;
\* NoVersion stands for undefined
Segs == {NaNSeg} \cup 0..MaxPart
SegSeqs == UNION {[1..n -> Segs] : n \in 1..MaxParts}
VersionStrings == [prefix : BOOLEAN, segs : SegSeqs]
NoVersion == [prefix |-> FALSE, segs |-> <<>>]

\* parseVersion: the leading v goes, each segment is parseInt(num, 10) || 0
ParseVersion(version) ==
    [i \in 1..Len(version.segs) |->
        IF version.segs[i] = NaNSeg THEN 0 ELSE version.segs[i]]

\* parts[i] || 0
Part(parts, i) == IF i <= Len(parts) THEN parts[i] ELSE 0

\* the for loop of compareVersions from index i on
RECURSIVE CompareFrom(_, _, _)
CompareFrom(currentParts, latestParts, i) ==
    LET maxLength == IF Len(currentParts) >= Len(latestParts)
                     THEN Len(currentParts) ELSE Len(latestParts)
    IN  IF i > maxLength THEN 0
        ELSE IF Part(currentParts, i) < Part(latestParts, i) THEN 0 - 1
        ELSE IF Part(currentParts, i) > Part(latestParts, i) THEN 1
        ELSE CompareFrom(currentParts, latestParts, i + 1)

CompareVersions(current, latest) ==
    CompareFrom(ParseVersion(current), ParseVersion(latest), 1)

\* what fetchWithRetry hands back: nothing (the loop made no attempt), JSON
\* null, a falsy JSON value, an object without the addon or its version, the
\* addon's entry without a version field, the entry with a version
Body(kind, version) == [kind |-> kind, version |-> version]
Undefined == Body("undefined", NoVersion)
NoBody == Body("none", NoVersion)
ApiBodies ==
    {Body(k, NoVersion) : k \in {"null", "falsy", "empty"}}
        \cup {Body("entry", v) : v \in VersionStrings}
LegacyBodies ==
    {Body(k, NoVersion) : k \in {"null", "falsy", "empty", "entryNoVersion"}}
        \cup {Body("entry", v) : v \in VersionStrings}

\* the outcome of checkForUpdates
NoResult ==
    [returned |-> FALSE, success |-> FALSE,
     isOutdated |-> FALSE, isCurrent |-> FALSE, isNewer |-> FALSE]
Failure == [NoResult EXCEPT !.returned = TRUE]
NoInformation == [Failure EXCEPT !.success = TRUE, !.isCurrent = TRUE]
Compared(comparison) ==
    [Failure EXCEPT !.success = TRUE, !.isOutdated = comparison < 0,
                    !.isNewer = comparison > 0, !.isCurrent = comparison = 0]

\* new VersionChecker(addonName, currentVersion, options), not yet asked
NewCheck(retries, useLegacyApi, current) ==
    [pc |-> "idle", retries |-> retries, useLegacyApi |-> useLegacyApi,
     current |-> current, phase |-> "none", attempt |-> 0,
     requests |-> <<>>, answers |-> <<>>, called |-> {}, apiFailed |-> FALSE,
     parsed |-> <<>>, returned |-> {}, threw |-> {},
     result |-> NoResult]
NoCheck == [NewCheck(0, FALSE, NoVersion) EXCEPT !.pc = "none"]

Finish(v, result) == [v EXCEPT !.pc = "done", !.result = result]

\* the outer catch of checkForUpdates
Caught(v) == Finish(v, Failure)

\* checkForUpdates from the destructuring of data on: no version object,
\* or the comparison; a version field that is undefined throws in
\* parseVersion
Evaluate(v, latestVersion) ==
    IF latestVersion.kind = "falsy" THEN Finish(v, NoInformation)
    ELSE IF latestVersion.version = NoVersion THEN Caught(v)
    ELSE Finish(v, Compared(CompareVersions(v.current, latestVersion.version)))

\* fetchFromLegacy after its fetchWithRetry: data.addons of nothing throws,
\* a registry without the addon throws
AfterLegacy(v, data) ==
    IF data.kind \in {"undefined", "null", "falsy", "empty"} THEN Caught(v)
    ELSE Evaluate(v, data)

\* fetchWithRetry of the phase returns data to its caller
Returned(v, phase, data) ==
    [v EXCEPT !.returned = @ \cup {[phase |-> phase, data |-> data]}]

\* fetchWithRetry of the phase throws the 'Failed after' error
Threw(v, phase) == [v EXCEPT !.threw = @ \cup {phase}]

\* fetchWithRetry enters its loop with attempt = 1 and calls fetch
Request(v, phase) ==
    [v EXCEPT !.pc = "fetch", !.phase = phase, !.attempt = 1,
              !.requests = Append(@, phase)]

\* fetchFromLegacy: with no attempt to make, fetchWithRetry returns nothing
FetchFromLegacy(v) ==
    LET w == [v EXCEPT !.called = @ \cup {"legacy"}]
    IN  IF 1 <= w.retries THEN Request(w, "legacy")
        ELSE AfterLegacy(Returned(w, "legacy", Undefined), Undefined)

\* a faulty variant: the error of fetchFromApi goes to the outer catch
ApiCatchNone(v) == Caught(v)

\* catch (apiError): fall back to the legacy endpoint
ApiCatch(v) == FetchFromLegacy(v)

\* fetchFromApi throws
ApiThrew(v) == ApiCatch([v EXCEPT !.apiFailed = TRUE])

\* fetchFromApi after its fetchWithRetry: latestVersion.name of nothing
\* throws
AfterApi(v, latestVersion) ==
    IF latestVersion.kind \in {"undefined", "null"} THEN ApiThrew(v)
    ELSE Evaluate(v, latestVersion)

FetchFromApi(v) ==
    LET w == [v EXCEPT !.called = @ \cup {"api"}]
    IN  IF 1 <= w.retries THEN Request(w, "api")
        ELSE AfterApi(Returned(w, "api", Undefined), Undefined)

\* checkForUpdates is called
V_Start ==
    /\ vc.pc = "idle"
    /\ vc' = IF vc.useLegacyApi THEN FetchFromLegacy(vc) ELSE FetchFromApi(vc)
    /\ UNCHANGED botVars

\* the request is answered with an OK response whose body parses
V_Respond ==
    /\ vc.pc = "fetch"
    /\ \E body \in IF vc.phase = "api" THEN ApiBodies ELSE LegacyBodies :
          LET w == Returned([vc EXCEPT !.answers = Append(@, TRUE),
                                       !.parsed = Append(@, body)],
                            vc.phase, body)
          IN  vc' = IF vc.phase = "api"
                    THEN AfterApi(w, body) ELSE AfterLegacy(w, body)
    /\ UNCHANGED botVars

\* the request fails (abort on timeout, network error, non-OK status, a body
\* that does not parse): the last attempt throws, the others wait
V_Fail ==
    /\ vc.pc = "fetch"
    /\ LET w == [vc EXCEPT !.answers = Append(@, FALSE),
                            !.parsed = Append(@, NoBody)]
       IN  vc' = IF w.attempt = w.retries
                 THEN IF w.phase = "api" THEN ApiThrew(Threw(w, "api"))
                      ELSE Caught(Threw(w, "legacy"))
                 ELSE [w EXCEPT !.pc = "backoff"]
    /\ UNCHANGED botVars

\* the backoff timer fires: the next attempt
V_Backoff ==
    /\ vc.pc = "backoff"
    /\ vc' = [vc EXCEPT !.pc = "fetch", !.attempt = @ + 1,
                        !.requests = Append(@, vc.phase)]
    /\ UNCHANGED botVars

\* the process has started: the database holds what earlier runs left, every
\* stored document has its artifact on the platform, nothing is in flight
Started ==
    /\ vc = NoCheck
    /\ \A i \in RecIds \ Channels : store[i] = NoDoc
    /\ live = {[id |-> c, ch |-> c,
                via |-> IF store[c].useWebhook THEN "hook" ELSE "bot",
                body |-> store[c].message, kind |-> PayloadKind] :
                    c \in {d \in Channels : store[d] # NoDoc}}
    /\ pendingDel = {}
    /\ cooldowns = [c \in {} |-> 0]
    /\ now = 0
    /\ hs = [h \in Handlers |-> IdleHandler]
    /\ sw = IdleSweep
    /\ cs = [k \in Cmds |-> IdleCmd]
    /\ cached = Channels
    /\ rateLimit = [c \in Channels |->
                        IF config.EnableSlowmode /\ store[c] # NoDoc
                        THEN "delay" ELSE "0"]
    /\ nextRec = NumChannels + 1
    /\ nextId = NumChannels + 1
    /\ faults = 0
    /\ ghost = [count0 |-> [i \in RecIds |->
                               IF store[i] = NoDoc THEN 0 ELSE store[i].msgCount],
                resets |-> [i \in RecIds |-> 0],
                retryDue |-> [i \in RecIds |-> FALSE],
                delFailed |-> FALSE, createCalls |-> 0, createFailed |-> FALSE,
                lookupFailed |-> FALSE, revoked |-> FALSE, persistFailed |-> FALSE,
                findFailed |-> FALSE]

Init ==
    /\ config \in Configs
    /\ store \in Stores([c \in Channels |-> InitDocs(c)])
    /\ hooks = StoredHooks
    /\ Started

\* as Init, every document at msgCount 0 with its artifact id stored
InitSeq ==
    /\ config \in Configs
    /\ store \in Stores([c \in Channels |-> InitDocs(c)])
    /\ \A c \in Channels : store[c] # NoDoc =>
            store[c].msgCount = 0 /\ store[c].messageId # NoId
    /\ hooks = StoredHooks
    /\ Started

\* as Init, with webhook documents in every channel, some of whose webhooks
\* were removed on the platform while the process was down
InitSweep ==
    /\ config \in SweepConfigs
    /\ store \in Stores([c \in Channels |-> SweepDocs(c)])
    /\ hooks \in SUBSET StoredHooks
    /\ Started

\* as InitSweep, with the triggers of the sweep as configured
InitLive ==
    /\ config \in LiveConfigs
    /\ store \in Stores([c \in Channels |-> SweepDocs(c)])
    /\ hooks \in SUBSET StoredHooks
    /\ Started

\* as Init, for the commands
InitCmd ==
    /\ config \in CmdConfigs
    /\ store \in Stores([c \in Channels |-> CmdDocs(c)])
    /\ hooks = StoredHooks
    /\ Started

\* a version checker is constructed next to a bot that has nothing stored
InitVer ==
    /\ vc \in {NewCheck(r, l, [prefix |-> FALSE, segs |-> q]) :
                  r \in 0..MaxRetries, l \in BOOLEAN, q \in SegSeqs}
    /\ config = CHOOSE c \in Configs : TRUE
    /\ store = [i \in RecIds |-> NoDoc]
    /\ hooks = {}
    /\ live = {}
    /\ pendingDel = {}
    /\ cooldowns = [c \in {} |-> 0]
    /\ now = 0
    /\ hs = [h \in Handlers |-> IdleHandler]
    /\ sw = IdleSweep
    /\ cs = [k \in Cmds |-> IdleCmd]
    /\ cached = Channels
    /\ rateLimit = [c \in Channels |-> "0"]
    /\ nextRec = NumChannels + 1
    /\ nextId = NumChannels + 1
    /\ faults = 0
    /\ ghost = [count0 |-> [i \in RecIds |-> 0],
                resets |-> [i \in RecIds |-> 0],
                retryDue |-> [i \in RecIds |-> FALSE],
                delFailed |-> FALSE, createCalls |-> 0, createFailed |-> FALSE,
                lookupFailed |-> FALSE, revoked |-> FALSE, persistFailed |-> FALSE,
                findFailed |-> FALSE]

Next ==
    \/ \E h \in Handlers, c \in Channels, a \in Authors, g \in BOOLEAN :
          H_Start(h, c, a, g)
    \/ \E h \in Handlers, a \in live : H_Echo(h, a)
    \/ \E h \in Handlers : H_FindOne(h)
    \/ \E h \in Handlers : H_Inc(h)
    \/ \E h \in Handlers : H_Gate(h)
    \/ \E h \in Handlers : H_FetchOld(h)
    \/ \E h \in Handlers : H_DelOld(h)
    \/ \E h \in Handlers : H_FetchAll(h)
    \/ \E h \in Handlers : H_HookSend(h)
    \/ \E h \in Handlers : H_Send(h)
    \/ \E h \in Handlers : H_Update(h)
    \/ \E m \in pendingDel : PlatformDelete(m)
    \/ \E w \in hooks : RevokeWebhook(w)
    \/ Tick

\* the outcomes of an invocation
Ended == {"ignored", "norecord", "skipped", "below", "done", "failed"}

\* a tracked message arrives when no handler is in flight and the channel's
\* debounce window is over
SeqStart(h, c) ==
    /\ \A g \in Handlers : hs[g].pc \in Ended \cup {"idle"}
    /\ GateOpen(c)
    /\ H_Start(h, c, "user", TRUE)

\* tracked messages, one after another
NextSeq ==
    \/ \E h \in Handlers, c \in Channels : SeqStart(h, c)
    \/ \E h \in Handlers : H_FindOne(h)
    \/ \E h \in Handlers : H_Inc(h)
    \/ \E h \in Handlers : H_Gate(h)
    \/ \E h \in Handlers : H_FetchOld(h)
    \/ \E h \in Handlers : H_DelOld(h)
    \/ \E h \in Handlers : H_HookSend(h)
    \/ \E h \in Handlers : H_Send(h)
    \/ \E h \in Handlers : H_Update(h)
    \/ \E w \in hooks : RevokeWebhook(w)
    \/ Tick

\* the sweep and what the platform may do to it
NextSweep ==
    \/ S_Start
    \/ S_Find
    \/ S_FetchHooks
    \/ S_Create
    \/ S_Persist
    \/ \E w \in hooks : RevokeWebhook(w)
    \/ \E c \in Channels : ChannelGone(c)

\* the commands, events and sweep runs started so far
Activities ==
    Cardinality({k \in Cmds : cs[k].pc # "idle"})
        + Cardinality({h \in Handlers : hs[h].pc # "idle"}) + sw.runs

\* a command arrives
CmdStart(k, kind, c, text, hookOpt, manageMessages, manageWebhooks) ==
    /\ Activities < MaxActivities
    /\ X_Start(k, kind, c, text, hookOpt, manageMessages, manageWebhooks)

\* one tracked message
CmdEvent(c) ==
    /\ Activities < MaxActivities
    /\ \A g \in Handlers : hs[g].pc = "idle"
    /\ H_Start(1, c, "user", TRUE)

\* the sweep runs while no command and no handler is in flight
CmdSweep ==
    /\ Activities < MaxActivities
    /\ S_Start

\* the commands, next to one tracked message, the sweep and the platform
NextCmd ==
    \/ \E k \in Cmds, c \in Channels, text \in CreateTexts,
          hookOpt \in {"true", "false", "unset"}, mm \in BOOLEAN, mw \in BOOLEAN :
            CmdStart(k, "create", c, text, hookOpt, mm, mw)
    \/ \E k \in Cmds, c \in Channels, mm \in BOOLEAN :
            CmdStart(k, "delete", c, <<>>, "unset", mm, FALSE)
    \/ \E k \in Cmds, c \in Channels, mm \in BOOLEAN :
            CmdStart(k, "list", c, <<>>, "unset", mm, FALSE)
    \/ \E k \in Cmds : C_Find(k)
    \/ \E k \in Cmds : C_Hook(k)
    \/ \E k \in Cmds : C_HookSend(k)
    \/ \E k \in Cmds : C_Send(k)
    \/ \E k \in Cmds : C_Store(k)
    \/ \E k \in Cmds : D_Find(k)
    \/ \E k \in Cmds : D_Delete(k)
    \/ \E k \in Cmds : D_FetchOld(k)
    \/ \E k \in Cmds : D_DelOld(k)
    \/ \E k \in Cmds : D_FetchAll(k)
    \/ \E k \in Cmds : L_Find(k)
    \/ \E k \in Cmds : L_Delete(k)
    \/ \E c \in Channels : ChannelGone(c)
    \/ \E m \in pendingDel : PlatformDelete(m)
    \/ \E c \in Channels : CmdEvent(c)
    \/ \E h \in Handlers : H_FindOne(h)
    \/ \E h \in Handlers : H_Inc(h)
    \/ \E h \in Handlers : H_Gate(h)
    \/ \E h \in Handlers : H_FetchOld(h)
    \/ \E h \in Handlers : H_DelOld(h)
    \/ \E h \in Handlers : H_FetchAll(h)
    \/ \E h \in Handlers : H_HookSend(h)
    \/ \E h \in Handlers : H_Send(h)
    \/ \E h \in Handlers : H_Update(h)
    \/ CmdSweep
    \/ S_Find
    \/ S_FetchHooks
    \/ S_Create
    \/ S_Persist

\* the sweep, started over and over
NextLive ==
    \/ S_Interval
    \/ S_Find
    \/ S_FetchHooks
    \/ S_Create
    \/ S_Persist
    \/ \E w \in hooks : RevokeWebhook(w)

Spec == Init /\ [][Next]_vars

\* every call of the sweep is answered and the timer keeps firing
SpecLive ==
    /\ InitLive /\ [][NextLive]_vars
    /\ WF_vars(S_Interval) /\ WF_vars(S_Find) /\ WF_vars(S_FetchHooks)
    /\ WF_vars(S_Create) /\ WF_vars(S_Persist)

SpecCmd == InitCmd /\ [][NextCmd]_vars

SpecSeq == InitSeq /\ [][NextSeq]_vars

SpecSweep == InitSweep /\ [][NextSweep]_vars

\* one checkForUpdates call and the answers of the registry
NextVer ==
    \/ V_Start
    \/ V_Respond
    \/ V_Fail
    \/ V_Backoff

SpecVer == InitVer /\ [][NextVer]_vars

\* every fetch settles (a response, an error, or the abort the timeout
\* sends) and every backoff timer fires
SpecVerLive ==
    SpecVer /\ WF_vars(V_Respond \/ V_Fail) /\ WF_vars(V_Backoff)

\* ------------------------------------------------------------------ claims

\* the webhook identity of every stored document
HookFields(st) ==
    [i \in RecIds |->
        IF st[i] = NoDoc THEN <<>>
        ELSE <<st[i].webhookId, st[i].webhookToken, st[i].webhookName,
               st[i].webhookAvatarURL>>]

\* every stored document that opts into webhook delivery names a webhook of
\* its channel's current list
AllHooksPresent ==
    \A i \in RecIds : store[i] # NoDoc /\ store[i].useWebhook => HookExists(store[i])

LiveSticky(c) == {a \in ArtifactsIn(c) : a.id \notin pendingDel}

\* C1: while no delete (or fetch for a delete) has failed on the platform,
\* every channel holds at most one live artifact of the sticky system.
C1_AtMostOneLive ==
    ~ghost.delFailed => \A c \in Channels : Cardinality(LiveSticky(c)) <= 1

\* sum of f[1..n]
RECURSIVE SumTo(_, _)
SumTo(f, n) == IF n = 0 THEN 0 ELSE f[n] + SumTo(f, n - 1)

\* the invocations that found document i, and the calls they have made
FoundDoc(i) == {h \in Handlers : hs[h].rec = i}
DispatchCalls(i) ==
    SumTo([h \in Handlers |->
            IF hs[h].rec = i THEN hs[h].hookSends + hs[h].sends ELSE 0], MaxEvents)
DeleteCalls(i) ==
    SumTo([h \in Handlers |-> IF hs[h].rec = i THEN hs[h].deletes ELSE 0], MaxEvents)
Quiet == \A h \in Handlers : hs[h].pc \in Ended \cup {"idle"}

\* C2 as stated: from msgCount 0 with a stored artifact id and no platform
\* failure, once MaxMessages - 1 tracked messages have been handled one after
\* another no dispatch call was made and msgCount is MaxMessages - 1; once
\* MaxMessages have been handled exactly one dispatch call and one delete call
\* were made and msgCount is 0.
C2_AsStated ==
    \A i \in Channels :
        (store[i] # NoDoc /\ Quiet /\ faults = 0) =>
            LET k == Cardinality(FoundDoc(i))
                N == config.MaxMessages
            IN  /\ k = N - 1 => store[i].msgCount = N - 1 /\ DispatchCalls(i) = 0
                /\ k = N => /\ store[i].msgCount = 0
                            /\ DispatchCalls(i) = 1
                            /\ DeleteCalls(i) = 1

\* the step in which invocation h passes the gate and decides
Decides(h) == hs[h].pc = "gate" /\ hs'[h].pc # "gate" /\ GateOpen(hs[h].ch)
Reconciling == {"fetchOld", "delOld", "fetchAll", "hookSend", "send", "update"}

\* C3 as stated: an invocation that decides starts the repost exactly when
\* the stored msgCount, its own increment included, is at least MaxMessages.
C3_AsStated ==
    [][\A h \in Handlers :
          (Decides(h) /\ store[hs[h].rec] # NoDoc) =>
              (hs'[h].pc \in Reconciling
                  <=> store[hs[h].rec].msgCount >= config.MaxMessages)]_vars

\* the invocations whose $inc of document i has been applied
Counted(i) ==
    {h \in Handlers : hs[h].rec = i /\ hs[h].pc \notin {"idle", "findOne", "inc"}}

\* C4: until a document is first reset, its stored msgCount is its initial
\* value plus the number of invocations whose $inc was applied, in whatever
\* order they ran and whether or not the gate then let them through.
C4_NoLostIncrement ==
    \A i \in RecIds :
        (store[i] # NoDoc /\ ghost.resets[i] = 0) =>
            store[i].msgCount = ghost.count0[i] + Cardinality(Counted(i))

\* C4 witness: two invocations were counted for one document, one of them
\* stopped by the gate.
C4_Witness ==
    \E i \in RecIds :
        /\ store[i] # NoDoc /\ ghost.resets[i] = 0
        /\ Cardinality(Counted(i)) = 2
        /\ \E h \in Counted(i) : hs[h].pc = "skipped"
        /\ store[i].msgCount = ghost.count0[i] + 2

\* C6: the update after a successful dispatch leaves the document, if it is
\* still stored, with msgCount 0 and messageId the id the dispatch returned.
C6_UpdateStoresArtifact ==
    [][\A h \in Handlers :
          (hs[h].pc = "update" /\ hs'[h].pc # "update" /\ store[hs[h].rec] # NoDoc) =>
              /\ hs[h].sentMessage # NoId
              /\ hs'[h].pc = "done"
              /\ store'[hs[h].rec].msgCount = 0
              /\ store'[hs[h].rec].messageId = hs[h].sentMessage]_vars

\* C6 witness: an invocation is done and the document holds its artifact.
C6_Witness ==
    \E h \in Handlers :
        /\ hs[h].pc = "done"
        /\ store[hs[h].rec] # NoDoc
        /\ store[hs[h].rec].msgCount = 0
        /\ store[hs[h].rec].messageId = hs[h].sentMessage
        /\ \E a \in live : a.id = hs[h].sentMessage

\* C7: when the direct post fails the invocation ends with the error after
\* that one post, and the step changes no document and posts nothing; an
\* invocation that reads the document after such a failure, before any reset
\* of it, and passes the gate, starts the delete-and-dispatch again.
C7_FailedDispatch ==
    /\ [][\A h \in Handlers :
             (hs[h].pc = "send" /\ hs'[h].pc \notin {"send", "update"}) =>
                 /\ hs'[h].pc = "failed"
                 /\ hs'[h].sends = 1
                 /\ store' = store
                 /\ live' = live]_vars
    /\ [](\A h \in Handlers :
             /\ hs[h].sends <= 1
             /\ (hs[h].afterFail /\ hs[h].gateAt # NoTime) => hs[h].pc # "below")

\* C7 witness: one invocation failed to dispatch, and a later one that read
\* the document after the failure is reconciling.
C7_Witness ==
    \E h, g \in Handlers :
        /\ hs[h].pc = "failed" /\ hs[h].sends = 1
        /\ hs[g].afterFail /\ hs[g].pc \in Reconciling
        /\ store[hs[h].rec].msgCount >= config.MaxMessages

\* C8: after a failed webhook send exactly one direct post is made; when it
\* succeeds the invocation ends without an error and its update stores the
\* post's id with msgCount 0; an invocation that tried the webhook ends with
\* an error only after its direct post failed as well.
C8_WebhookFallback ==
    /\ [][\A h \in Handlers :
             /\ (hs[h].pc = "hookSend" /\ hs'[h].pc # "hookSend") =>
                    hs'[h].pc \in {"update", "send"}
             /\ (hs[h].pc = "update" /\ hs'[h].pc # "update" /\ hs[h].sends = 1
                     /\ hs[h].hookSends = 1 /\ store[hs[h].rec] # NoDoc) =>
                    /\ hs'[h].pc = "done"
                    /\ store'[hs[h].rec].msgCount = 0
                    /\ store'[hs[h].rec].messageId = hs[h].sentMessage
                    /\ hs[h].sentMessage # NoId]_vars
    /\ [](\A h \in Handlers :
             /\ hs[h].hookSends <= 1 /\ hs[h].sends <= 1
             /\ (hs[h].hookSends = 1 /\ hs[h].pc \in {"update", "done"}
                    /\ hs[h].sends = 1) => hs[h].sentMessage # NoId
             /\ (hs[h].hookSends = 1 /\ hs[h].pc = "failed") => hs[h].sends = 1)

\* C8 witness: the webhook send failed, the direct post went through, and the
\* document holds the direct post's id.
C8_Witness ==
    \E h \in Handlers :
        /\ hs[h].pc = "done" /\ hs[h].hookSends = 1 /\ hs[h].sends = 1
        /\ store[hs[h].rec].messageId = hs[h].sentMessage
        /\ store[hs[h].rec].msgCount = 0
        /\ \E a \in live : a.id = hs[h].sentMessage /\ a.via = "bot"

\* the invocations that passed the debounce gate of channel c
Passed(c) == {h \in Handlers : hs[h].ch = c /\ hs[h].gateAt # NoTime}
Attempted(h) == hs[h].pc \in Reconciling \cup {"done", "failed"}

ResetBy(i) ==
    \E h \in Handlers :
        /\ hs[h].pc = "update" /\ hs'[h].pc = "done"
        /\ hs[h].stickyMessage.id = i
        /\ hs[h].sentMessage # NoId
        /\ hs[h].sends + hs[h].hookSends >= 1

\* C5: the stored msgCount of a document is lowered only to 0, and only by
\* the last update of a handler whose own dispatch succeeded; no other step
\* of a handler, a command or the sweep lowers it
C5_LoweredOnlyByReset ==
    [][\A i \in RecIds :
          (store[i] # NoDoc /\ store'[i] # NoDoc
                /\ store'[i].msgCount < store[i].msgCount)
            => (store'[i].msgCount = 0 /\ ResetBy(i))]_vars

\* C5 happens: a handler has reset a document that had counted, and a command
\* or a sweep has run next to it
C5_Witness ==
    \E i \in RecIds :
        /\ store[i] # NoDoc /\ store[i].msgCount = 0
        /\ ghost.count0[i] > 0 /\ ghost.resets[i] > 0
        /\ \/ sw.runs > 0
           \/ \E k \in Cmds : cs[k].pc = "ended"

\* the documents the run's find returned, those still to be handled, and
\* those the loop is through with
FoundIds == {sw.found[j].id : j \in 1..Len(sw.found)}
Remaining == {sw.records[j].id : j \in 1..Len(sw.records)}
Handled == FoundIds \ (Remaining \cup sw.skipped)
Found(i) == CHOOSE d \in {sw.found[j] : j \in 1..Len(sw.found)} : d.id = i

\* the document, as find returned it, lacks an id or token, or the lookup
\* failed, or the list the lookup returned does not hold the stored id
NeedsWebhook(i) ==
    \/ Found(i).webhookId = NoId \/ Found(i).webhookToken = NoId
    \/ sw.lookups[i].failed
    \/ sw.lookups[i].answered /\ Found(i).webhookId \notin sw.lookups[i].ids

\* in a run, a handled document has had one createWebhook call if it needed a
\* webhook and none otherwise, and no document ever has a second call
OneCallPerNeed ==
    /\ \A i \in FoundIds : sw.calls[i] <= 1
    /\ \A i \in sw.skipped : sw.calls[i] = 0
    /\ \A i \in Handled : sw.calls[i] = IF NeedsWebhook(i) THEN 1 ELSE 0

Hooked(i) ==
    /\ store[i] # NoDoc
    /\ store[i].webhookId # NoId /\ store[i].webhookToken # NoId
    /\ HookExists(store[i])

\* C12: with the interval timer on, a stored document that opts into webhook
\* delivery (none is deleted, every channel is resolvable, and only finitely
\* many calls fail) eventually holds the id and token of a webhook that
\* exists in its channel.
C12_EventuallyHooked ==
    \A i \in RecIds :
        (config.CheckIntervalSeconds > 0 /\ store[i] # NoDoc /\ store[i].useWebhook)
            ~> Hooked(i)

\* C12 happens: a creation failed in one run and a later run gave the
\* document a webhook that exists.
C12_Witness ==
    \E i \in RecIds :
        /\ config.CheckIntervalSeconds > 0 /\ ~config.CreateOnStartup
        /\ ghost.createFailed /\ sw.runs >= 2
        /\ Hooked(i) /\ store[i].webhookId = sw.made[i]

\* the stored documents of channel c
RecordsOf(c) == {i \in RecIds : store[i] # NoDoc /\ store[i].channelId = c}

\* C13: no channel ever has two stored documents, two 'create' commands of
\* one channel in flight at once included.
C13_OneRecordPerChannel ==
    \A c \in Channels : Cardinality(RecordsOf(c)) <= 1

\* C13 happens: two 'create' commands of one channel both passed the
\* existence check; one stored its document and the other was refused by
\* the store.
C13_Witness ==
    \E k, j \in Cmds :
        /\ k # j /\ cs[k].kind = "create" /\ cs[j].kind = "create"
        /\ cs[k].ch = cs[j].ch
        /\ cs[k].reply = "created" /\ cs[j].reply = "failed"
        /\ Cardinality(RecordsOf(cs[k].ch)) = 1
        /\ faults = 0

\* the step changes no document, artifact, webhook or channel setting
NothingChanges ==
    /\ store' = store /\ live' = live /\ hooks' = hooks
    /\ pendingDel' = pendingDel /\ rateLimit' = rateLimit /\ nextRec' = nextRec

\* C14: a 'create' command (of a member who may use it) whose findOne is
\* answered while the channel has a document ends there with the
\* already-exists reply, and neither that step nor the one that started the
\* command changes a document, posts or deletes an artifact, or creates a
\* webhook.
C14_CreateRejected ==
    [][\A k \in Cmds :
          /\ (cs[k].pc = "idle" /\ cs'[k].pc # "idle") => NothingChanges
          /\ (cs[k].pc = "c_find" /\ cs'[k].pc # "c_find"
                    /\ RecordsOf(cs[k].ch) # {}) =>
                 /\ cs'[k].pc = "ended" /\ cs'[k].reply = "exists"
                 /\ NothingChanges]_vars

\* C14 happens: a 'create' command got the already-exists reply and the
\* channel's document is the one it started with.
C14_Witness ==
    \E k \in Cmds :
        /\ cs[k].kind = "create" /\ cs[k].reply = "exists"
        /\ RecordsOf(cs[k].ch) = {cs[k].ch}
        /\ store[cs[k].ch].msgCount = ghost.count0[cs[k].ch]

\* command k makes a step from position pc
StepFrom(k, pc) == cs[k].pc = pc /\ cs'[k] # cs[k]

\* command k ends with the success reply of 'delete'
RepliesDeleted(k) == cs'[k].pc = "ended" /\ cs'[k].reply = "deleted"

\* C15: a 'delete' command that found a document removes the channel's
\* document; when the document stores a messageId the command then fetches
\* that artifact and, having fetched it, deletes it; whether or not the
\* fetch or the delete fails, the command's steps leave the store alone and
\* the command ends with the success reply.
C15_DeleteRemoves ==
    [][\A k \in Cmds :
          /\ StepFrom(k, "d_delete") =>
                /\ RecordsOf(cs[k].ch)' = {}
                /\ cs[k].stickyMessage.messageId # NoId => cs'[k].pc = "d_fetchOld"
          /\ StepFrom(k, "d_fetchOld") =>
                /\ store' = store
                /\ \/ /\ cs'[k].pc = "d_delOld"
                      /\ cs'[k].oldMsg = cs[k].stickyMessage.messageId
                   \/ /\ RepliesDeleted(k)
                      /\ \/ faults' = faults + 1
                         \/ \A a \in ArtifactsIn(cs[k].ch) :
                                a.id # cs[k].stickyMessage.messageId
          /\ StepFrom(k, "d_delOld") =>
                /\ store' = store
                /\ RepliesDeleted(k)
                /\ \/ faults' = faults + 1
                   \/ \A a \in live' : a.id # cs[k].oldMsg]_vars

\* C15 happens: a 'delete' command ended with the success reply, the
\* deletion of the stored artifact failed (the artifact is still there), and
\* the channel has no document.
C15_Witness ==
    \E k \in Cmds :
        /\ cs[k].kind = "delete" /\ cs[k].reply = "deleted"
        /\ ghost.delFailed
        /\ \A h \in Handlers : hs[h].pc = "idle"
        /\ \E a \in live : a.id = cs[k].ch /\ a.ch = cs[k].ch
        /\ RecordsOf(cs[k].ch) = {}

\* C16: a 'delete' command whose findOne is answered while the channel has
\* no document ends there with the not-found reply (it does not fail), and
\* that step changes no document, no artifact, no webhook, no pending
\* deletion and no slowmode setting.
C16_DeleteNotFound ==
    [][\A k \in Cmds :
          (StepFrom(k, "d_find") /\ RecordsOf(cs[k].ch) = {}) =>
              /\ cs'[k].pc = "ended" /\ cs'[k].reply = "notfound"
              /\ NothingChanges]_vars

\* C16 happens: a 'delete' command got the not-found reply on a channel
\* that has no document (none was stored during the run) but still has an
\* artifact, and no call failed.
C16_Witness ==
    \E k \in Cmds :
        /\ cs[k].kind = "delete" /\ cs[k].reply = "notfound"
        /\ RecordsOf(cs[k].ch) = {} /\ nextRec = NumChannels + 1
        /\ ArtifactsIn(cs[k].ch) # {}
        /\ faults = 0

\* every request checkForUpdates made failed
AllFetchesFailed == \A i \in DOMAIN vc.answers : ~vc.answers[i]

\* how many of the three flags of the result are true
FlagsSet ==
    Cardinality({f \in {"isOutdated", "isCurrent", "isNewer"} : vc.result[f]})

\* C17: checkForUpdates never throws (it ends by returning a result, every
\* error inside it ends in its catch); when every request it made failed it
\* returns success = false with isOutdated, isCurrent and isNewer all false;
\* when it returns success = true exactly one of the three flags is true;
\* and fetchFromLegacy is called exactly when useLegacyApi is set or
\* fetchFromApi threw.
C17_CheckForUpdates ==
    /\ vc.pc = "done" =>
          /\ vc.result.returned
          /\ AllFetchesFailed => ~vc.result.success /\ FlagsSet = 0
          /\ vc.result.success => FlagsSet = 1
    /\ vc.pc \in {"fetch", "backoff", "done"} =>
          ("legacy" \in vc.called <=> (vc.useLegacyApi \/ vc.apiFailed))

\* C17 happens: the new API failed on every attempt, the legacy endpoint
\* answered after a failed attempt, and the result says outdated.
C17_Witness ==
    /\ vc.pc = "done" /\ ~vc.useLegacyApi /\ vc.apiFailed
    /\ vc.requests = <<"api", "api", "legacy", "legacy">>
    /\ vc.answers = <<FALSE, FALSE, FALSE, TRUE>>
    /\ vc.result.success /\ vc.result.isOutdated

\* handler h has decided to repost (threshold reached) and has not yet had
\* its final findByIdAndUpdate answered
InFlight(h) == hs[h].pc \in Reconciling

\* C18: no two handlers of one channel are between their threshold decision
\* and their final record update at the same time.
C18_OneAttemptInFlight ==
    \A h, g \in Handlers :
        (h # g /\ InFlight(h) /\ InFlight(g)) => hs[h].ch # hs[g].ch

\* handler h is in the removal of the previous artifact
Removing(h) == hs[h].pc \in {"fetchOld", "delOld", "fetchAll"}

\* C19: every step of the removal of the previous artifact, whether its call
\* succeeds or fails, leaves the handler in the removal or takes it to the
\* dispatch: none ends the handler.
C19_RemovalNeverStops ==
    [][\A h \in Handlers :
          (Removing(h) /\ hs'[h] # hs[h]) =>
              hs'[h].pc \in {"delOld", "hookSend", "send"}]_vars

\* in the run, a call made for document i failed: the lookup, createWebhook,
\* or the update
FailedFor(i) ==
    \/ sw.lookups[i].failed
    \/ sw.calls[i] = 1 /\ sw.made[i] = NoId
    \/ i \in sw.lost

\* C20: a run of the sweep ends only after its last record, whatever failed
\* on the way (no failed lookup, createWebhook or update ends it, and none
\* leaves it); every handled record that needed a webhook has had its
\* createWebhook call, and when that call and the update after it succeeded
\* the document holds the id and token of the webhook just created.
C20_SweepGoesOn ==
    /\ sw.pc = "idle" => Remaining = {}
    /\ sw.pc \in {"idle", "find", "fetchHooks", "create", "persist"}
    /\ \A i \in Handled :
          NeedsWebhook(i) =>
             /\ sw.calls[i] = 1
             /\ (sw.made[i] # NoId /\ i \notin sw.lost /\ store[i] # NoDoc) =>
                   /\ store[i].webhookId = sw.made[i]
                   /\ store[i].webhookToken = TokenOf(sw.made[i])
                   /\ sw.made[i] # Found(i).webhookId

\* C20 happens: in a finished run a call for one record failed, and a later
\* record that needed a webhook holds the one the run created for it.
C20_Witness ==
    /\ sw.pc = "idle" /\ sw.runs = 1
    /\ \E i, j \in Handled :
          /\ i < j /\ FailedFor(i)
          /\ NeedsWebhook(j) /\ ~FailedFor(j)
          /\ store[j].webhookId = sw.made[j] /\ sw.made[j] # NoId

\* the step writes no document, sets no cooldown, and neither posts nor
\* deletes (nor asks to delete) a message
EventLeavesAll ==
    /\ store' = store /\ cooldowns' = cooldowns /\ live' = live
    /\ pendingDel' = pendingDel /\ nextId' = nextId

\* the invocation has passed no gate and had no delete or send answered
NoCallsBy(hrec) ==
    /\ hrec.gateAt = NoTime
    /\ hrec.deletes = 0 /\ hrec.hookSends = 0 /\ hrec.sends = 0

\* C21: the handler of an event whose author is the bot's own user, or that
\* has no guild, returns at once, and the handler of an event in a channel
\* without a document returns when findOne has answered; in both cases no
\* document, no cooldown entry and no message is changed, and the handler
\* has made no delete or send call.
C21_IgnoredEvents ==
    [][\A h \in Handlers :
          /\ (hs[h].pc = "idle" /\ hs'[h].pc # "idle"
                    /\ (hs'[h].own \/ ~hs'[h].guild)) =>
                 /\ hs'[h].pc = "ignored"
                 /\ EventLeavesAll /\ NoCallsBy(hs'[h])
          /\ (hs[h].pc = "findOne" /\ hs'[h] # hs[h]
                    /\ RecordsOf(hs[h].ch) = {}) =>
                 /\ hs'[h].pc = "norecord"
                 /\ EventLeavesAll /\ NoCallsBy(hs'[h])]_vars

\* C21 happens: one event without a guild and one in a channel without a
\* document have been handled; the stored counts are the initial ones and
\* the debounce map is empty.
C21_Witness ==
    \E h, g \in Handlers :
        /\ hs[h].pc = "ignored" /\ ~hs[h].own /\ ~hs[h].guild
        /\ hs[g].pc = "norecord" /\ RecordsOf(hs[g].ch) = {}
        /\ \A i \in RecIds : store[i] # NoDoc => store[i].msgCount = ghost.count0[i]
        /\ DOMAIN cooldowns = {}

\* C22: the handler of an event that reports an artifact the sticky system
\* itself posted, directly or through the record's webhook, never has its
\* $inc applied to a document.
C22_OwnDispatchNotCounted ==
    [][\A h \in Handlers :
          (hs[h].of # NoId /\ hs[h].pc = "inc" /\ hs'[h].pc # "inc") =>
              store' = store]_vars

\* C23: a document that has been removed never comes back and is never
\* written again (a handler or a sweep that read it before the removal
\* updates it by _id, which then matches nothing), and a channel without a
\* document gets one only by the StickyMessage.create of a 'create' command
\* for that channel.
C23_DeletionTerminal ==
    [][/\ \A i \in RecIds : (i < nextRec /\ store[i] = NoDoc) => store'[i] = NoDoc
       /\ \A c \in Channels :
             (RecordsOf(c) = {} /\ RecordsOf(c)' # {}) =>
                 \E k \in Cmds :
                     /\ cs[k].kind = "create" /\ cs[k].ch = c
                     /\ cs[k].pc = "c_store"
                     /\ cs'[k].pc = "ended" /\ cs'[k].reply = "created"]_vars

\* C23 happens: a 'delete' command removed the document a handler had read;
\* the handler went on to repost and had its final update answered; the
\* channel has no document.
C23_Witness ==
    \E k \in Cmds, h \in Handlers :
        /\ cs[k].kind = "delete" /\ cs[k].reply = "deleted"
        /\ hs[h].pc = "done" /\ hs[h].ch = cs[k].ch
        /\ hs[h].rec # NoId /\ store[hs[h].rec] = NoDoc
        /\ RecordsOf(cs[k].ch) = {}

\* C24: once a 'delete' command has completed, the handlers have finished,
\* every requested delete has been served, no platform call has failed and
\* no 'create' command has been given, the
\* command's channel holds no artifact of the sticky system.
C24_NoArtifactAfterDelete ==
    \A k \in Cmds :
        (/\ cs[k].kind = "delete" /\ cs[k].reply = "deleted"
         /\ \A j \in Cmds : cs[j].kind # "create"
         /\ Quiet /\ pendingDel = {} /\ faults = 0) =>
            ArtifactsIn(cs[k].ch) = {}

\* C25: every stored document with useWebhook = true has a webhook id and a
\* webhook token; a document is stored with useWebhook = true only with the
\* identity of the webhook its 'create' command created and sent through
\* (and otherwise without identity), useWebhook is never changed afterwards,
\* and id and token are only ever overwritten by the sweep, with those of a
\* webhook it has just created.
C25_WebhookIdentity ==
    /\ [](\A i \in RecIds :
            (store[i] # NoDoc /\ store[i].useWebhook) =>
                store[i].webhookId # NoId /\ store[i].webhookToken # NoId)
    /\ [][\A i \in RecIds :
            /\ (store[i] = NoDoc /\ store'[i] # NoDoc) =>
                  \E k \in Cmds :
                      /\ cs[k].pc = "c_store" /\ cs'[k].pc = "ended"
                      /\ store'[i].messageId = cs[k].sentMessage
                      /\ IF store'[i].useWebhook
                         THEN /\ cs[k].hook # NoId
                              /\ store'[i].webhookId = cs[k].hook
                              /\ store'[i].webhookToken = TokenOf(cs[k].hook)
                         ELSE /\ store'[i].webhookId = NoId
                              /\ store'[i].webhookToken = NoId
            /\ (store[i] # NoDoc /\ store'[i] # NoDoc) =>
                  /\ store'[i].useWebhook = store[i].useWebhook
                  /\ (store'[i].webhookId # store[i].webhookId
                         \/ store'[i].webhookToken # store[i].webhookToken) =>
                        /\ sw.pc = "persist" /\ sw.created # NoId
                        /\ sw.created # store[i].webhookId
                        /\ store'[i].webhookId = sw.created
                        /\ store'[i].webhookToken = TokenOf(sw.created)]_vars

\* C25 happens: a 'create' command stored a document with useWebhook = true
\* and the identity of a webhook made during the run, and another document's
\* identity was replaced by the sweep.
C25_Witness ==
    /\ \E k \in Cmds, i \in RecIds :
          /\ cs[k].kind = "create" /\ cs[k].reply = "created"
          /\ i > NumChannels /\ store[i] # NoDoc /\ store[i].useWebhook
          /\ store[i].webhookId > NumChannels
    /\ \E j \in Channels :
          /\ store[j] # NoDoc /\ store[j].useWebhook
          /\ store[j].webhookId > NumChannels

\* C26: every step of a 'list' command makes no platform call, changes no
\* field of any document, and removes a document only if its channel is not
\* in the cache; and every document the command passes in the step (it had
\* still to look at it before and has not after) is either one whose
\* channel is in the cache, left as it is, or one whose channel is not,
\* after which that channel has no document.
C26_ListPrunes ==
    [][\A k \in Cmds :
          (cs[k].pc \in {"l_find", "l_delete"} /\ cs'[k] # cs[k]) =>
              LET DocsIn(records) == {records[j] : j \in 1..Len(records)}
                  Before == IF cs[k].pc = "l_find" THEN DocsIn(FindAll(1))
                            ELSE DocsIn(cs[k].records)
              IN  /\ live' = live /\ pendingDel' = pendingDel
                  /\ nextId' = nextId /\ hooks' = hooks
                  /\ rateLimit' = rateLimit
                  /\ \A i \in RecIds :
                        store'[i] # store[i] =>
                            /\ store'[i] = NoDoc
                            /\ store[i].channelId \notin cached
                  /\ \A d \in Before \ DocsIn(cs'[k].records) :
                        IF d.channelId \in cached
                        THEN store'[d.id] = store[d.id]
                        ELSE RecordsOf(d.channelId)' = {}]_vars

\* C26 happens: a 'list' command has replied after removing the document of
\* a channel that left the cache, and the document of a channel in the cache
\* is as it was.
C26_Witness ==
    \E k \in Cmds, c, e \in Channels :
        /\ cs[k].kind = "list" /\ cs[k].reply = "listed"
        /\ c \notin cached /\ ghost.count0[c] > 0 /\ store[c] = NoDoc
        /\ e \in cached /\ store[e] # NoDoc /\ store[e].msgCount = ghost.count0[e]
        /\ \A j \in Cmds : cs[j].kind \in {"list", "none"}

\* a fetchWithRetry in progress comes to its end: it throws or returns
FetchWithRetryTerminates ==
    \A phase \in {"api", "legacy"} :
        (vc.pc \in {"fetch", "backoff"} /\ vc.phase = phase)
            ~> (phase \in vc.threw \/ \E r \in vc.returned : r.phase = phase)

\* C27: fetchWithRetry makes at most options.retries requests and none after
\* a successful one, what it returns is the parsed body of a successful
\* response to one of its requests, and it throws the 'Failed after' error
\* exactly if it was called and options.retries of its requests failed.
C27_FetchWithRetry ==
    \A phase \in {"api", "legacy"} :
        LET Requests == {i \in DOMAIN vc.requests : vc.requests[i] = phase}
            Failed == {i \in Requests :
                          i \in DOMAIN vc.answers /\ ~vc.answers[i]}
        IN  /\ Cardinality(Requests) <= vc.retries
            /\ \A i, j \in Requests : i < j => i \in Failed
            /\ \A r \in vc.returned :
                  r.phase = phase =>
                      \E i \in Requests :
                          /\ i \in DOMAIN vc.answers /\ vc.answers[i]
                          /\ vc.parsed[i] = r.data
            /\ phase \in vc.threw <=>
                  (phase \in vc.called /\ Cardinality(Failed) = vc.retries)

\* C27 where the constructor was given one attempt at least
WithAttempts == vc.retries >= 1 => C27_FetchWithRetry

====
